---- MODULE Spec2Model ----
(***************************************************************************)
(* A model of doc_scan: the path helpers of utils.py, the batch run of     *)
(* main.py (convertDataset followed by the extraction loop of main) and    *)
(* the pure steps rescaleBBoxes, displayText and exportJson.               *)
(*                                                                         *)
(* Paths.  The code is written for Windows (sepPath splits on the          *)
(* backslash, main uses C:\ paths), so os.path is ntpath.  A path string   *)
(* is modelled as the sequence of its backslash-separated components; a    *)
(* component is a record [stem, ext], ext being the extension as           *)
(* os.path.splitext returns it: a sequence of characters that starts with  *)
(* the dot, or the empty sequence.  Extensions handed to the helpers as    *)
(* arguments ('png', 'pdf') are sequences of characters too, so that       *)
(* f'.{ext}', '.' in ext and .replace('.', '') are computed, not assumed.  *)
(***************************************************************************)
EXTENDS Integers, Sequences, FiniteSets, TLC

VARIABLES
    \* ---- the filesystem
    dirs,           \* the directories that exist (a set of paths)
    files,          \* the files that exist: path -> content
    \* ---- the batch run (main, convertDataset)
    pc,             \* position of the run
    dataset_dir,    \* convertDataset's dataset_dir
    results_dir,    \* convertDataset's save_dir, main's results_dir
    overwrite,      \* convertDataset's overwrite
    docQueue,       \* the documents the running for loop has still to visit
    document_dir,   \* the loop variable of the running for loop
    outputs_dir,    \* main: outputs_dir of the current document
    pageQueue,      \* main: the page_dir values the inner loop has still to visit
    calls,          \* history: document -> number of convertPDF invocations
    targets,        \* history: document -> pdf2png_path computed for it
    processed,      \* history: the images extracted, rescaled, rendered and exported,
                    \* each with the outputs_dir its outputs went to
    reached,        \* history: the documents each loop body has run for
    run,            \* the number of the run: 1 for the first run of the script
    clean,          \* history: before the first run, every target directory
                    \* that existed held all the pages of its document
    \* ---- rescaleBBoxes
    img,            \* the page: [width, height]
    bboxes,         \* the caller's list of boxes (a list of mutable lists)
    normalized,     \* history: the boxes as the caller first passed them
    rescaled,       \* the lists returned by the calls made so far
    \* ---- displayText
    words,          \* the words still to draw
    boxes,          \* their boxes
    tpc,            \* position inside displayText
    fontsize,       \* the local fontsize
    drawn,          \* history: the draw.text calls made: [word, box, size, steps]
    metric,         \* the font: word -> advance per unit of font size
    \* ---- exportJson
    exWords,        \* exportJson's words
    exBoxes,        \* exportJson's bboxes
    exFile,         \* output_file: whether it exists, and the list it holds
    exRaised,       \* what exportJson raised
    \* ---- the path operations, called on their own
    call            \* the last call made and what came of it

fsVars      == <<dirs, files>>
batchVars   == <<pc, dataset_dir, results_dir, overwrite, docQueue, document_dir,
                 outputs_dir, pageQueue, calls, targets, processed, reached,
                 run, clean>>
rescaleVars == <<img, bboxes, normalized, rescaled>>
textVars    == <<words, boxes, tpc, fontsize, drawn, metric>>
exportVars  == <<exWords, exBoxes, exFile, exRaised>>
pathVars    == <<call>>
vars        == <<fsVars, batchVars, rescaleVars, textVars, exportVars, pathVars>>

\* what a step of one part leaves alone
runVars     == <<run, clean>>
notBatch    == <<runVars, rescaleVars, textVars, exportVars, pathVars>>
notRescale  == <<fsVars, batchVars, textVars, exportVars, pathVars>>
notText     == <<fsVars, batchVars, rescaleVars, exportVars, pathVars>>
notExport   == <<fsVars, batchVars, rescaleVars, textVars, pathVars>>
notPath     == <<batchVars, rescaleVars, textVars, exportVars>>

-----------------------------------------------------------------------------
(* Strings and paths *)

NoExt  == <<>>                  \* ''
png    == <<"p", "n", "g">>     \* 'png'
pdf    == <<"p", "d", "f">>     \* 'pdf'
PDF    == <<"P", "D", "F">>     \* 'PDF'
txt    == <<"t", "x", "t">>
json   == <<"j", "s", "o", "n">>
v1     == <<"v", "1">>
Dot(e) == <<".">> \o e          \* f'.{ext}'

Comp(stem, e) == [stem |-> stem, ext |-> e]
Name(stem)    == <<Comp(stem, NoExt)>>          \* a one-component path without extension
File(stem, e) == <<Comp(stem, Dot(e))>>         \* a one-component path stem.e

Drives == {"C:"}

\* ntpath.isabs, for the paths of the model: the path starts with a drive.
IsAbs(p) == Len(p) > 0 /\ p[1].stem \in Drives

\* os.path.join(p, q): an absolute q discards what came before it.
OsJoin(p, q) == IF IsAbs(q) THEN q ELSE p \o q

\* os.path.join(path_, *paths)
RECURSIVE OsJoinAll(_, _)
OsJoinAll(path_, paths) ==
    IF paths = <<>> THEN path_
    ELSE OsJoinAll(OsJoin(path_, Head(paths)), Tail(paths))

\* os.path.splitext(p): <<root, ext>>; the extension is that of the last component.
SplitExt(p) ==
    IF p = <<>> THEN <<p, NoExt>>
    ELSE <<[p EXCEPT ![Len(p)].ext = NoExt], p[Len(p)].ext>>

\* root + ext, for a root that splitext returned
Concat(root, e) == IF root = <<>> THEN root ELSE [root EXCEPT ![Len(root)].ext = e]

HasDot(e) == \E i \in 1..Len(e) : e[i] = "."

\* e.replace('.', '')
IsNotDot(c) == c # "."
StripDots(e) == SelectSeq(e, IsNotDot)

\* utils.joinPath(path_, *paths, ext=ext)
joinPath(path_, paths, ext) ==
    LET s        == SplitExt(OsJoinAll(path_, paths))
        path_ext == IF ext # NoExt /\ s[2] # ext
                    THEN (IF HasDot(ext) THEN ext ELSE Dot(ext))
                    ELSE s[2]
    IN  Concat(s[1], path_ext)

Modes == {"ignore", "warn", "raise"}

\* os.path.exists
Exists(p) == p \in dirs \/ p \in DOMAIN files

\* utils.checkPath(path_, *paths, ext=ext, errors=errors).  raised is the
\* exception that leaves the call ("None": it returns <<path, exist>>), warned
\* whether warnings.warn was called, touched whether the filesystem was asked.
checkPath(path_, paths, ext, errors) ==
    IF errors \notin Modes
    THEN [raised |-> "ValueError", path |-> path_, exist |-> FALSE,
          warned |-> 0, touched |-> FALSE]
    ELSE LET p     == joinPath(path_, paths, ext)
             exist == Exists(p)
         IN  [raised  |-> IF ~exist /\ errors = "raise" THEN "FileNotFoundError"
                          ELSE "None",
              path    |-> p,
              exist   |-> exist,
              warned  |-> IF ~exist /\ errors = "warn" THEN 1 ELSE 0,
              touched |-> TRUE]

\* os.makedirs(p): p and every missing ancestor of it
Ancestors(p) == {SubSeq(p, 1, k) : k \in 1..Len(p)}

\* utils.makePath(path_, *paths, errors=errors): what it raises, the path it
\* returns, and the directories that exist afterwards.
makePath(path_, paths, errors) ==
    LET c == checkPath(path_, paths, NoExt, errors)
    IN  [raised  |-> c.raised,
         path    |-> c.path,
         warned  |-> c.warned,
         touched |-> c.touched,
         dirs    |-> IF c.raised = "None" /\ ~c.exist
                     THEN dirs \cup Ancestors(c.path) ELSE dirs]

\* The names os.listdir(p) returns, as a set: os.listdir promises no order.
OsListdir(p) ==
    {q[Len(q)] : q \in {r \in dirs \cup DOMAIN files :
                          Len(r) = Len(p) + 1 /\ SubSeq(r, 1, Len(p)) = p}}

\* ext = '' is the default of listPath; line 87 turns a str into a one-element list.
DefaultExt == {NoExt}

\* utils.listPath(path_, *paths, ext=ext, return_file_path=..., errors=errors),
\* ext being the list of line 88 (as a set).  files is the set of entries of
\* the returned list; their order is that of os.listdir.
listPath(path_, paths, ext, return_file_path, errors) ==
    IF errors \notin Modes
    THEN [raised |-> "ValueError", path |-> path_, files |-> {},
          warned |-> 0, touched |-> FALSE]
    ELSE LET c == checkPath(path_, paths, NoExt, errors)
         IN  IF c.raised # "None"
             THEN [raised |-> c.raised, path |-> c.path, files |-> {},
                   warned |-> c.warned, touched |-> TRUE]
             ELSE IF c.path \notin dirs
             THEN \* os.listdir of a missing path (of a file: NotADirectoryError)
                  [raised |-> IF c.exist THEN "NotADirectoryError"
                              ELSE "FileNotFoundError",
                   path |-> c.path, files |-> {}, warned |-> c.warned,
                   touched |-> TRUE]
             ELSE [raised |-> "None", path |-> c.path,
                   files  |-> {IF return_file_path
                               THEN joinPath(c.path, <<<<file>>>>, NoExt)
                               ELSE <<file>> :
                               file \in {f \in OsListdir(c.path) :
                                           StripDots(SplitExt(<<f>>)[2]) \in ext}},
                   warned |-> c.warned, touched |-> TRUE]

\* utils.sepPath(path_, direction, max_split)
sepPath(path_, direction, max_split) ==
    IF max_split \notin 1..(Len(path_) - 1)
    THEN [raised |-> "ValueError", left |-> <<>>, right |-> <<>>]
    ELSE IF direction = "lr"
    THEN [raised |-> "None", left |-> SubSeq(path_, 1, max_split),
          right |-> SubSeq(path_, max_split + 1, Len(path_))]
    ELSE IF direction = "rl"
    THEN [raised |-> "None", left |-> SubSeq(path_, 1, Len(path_) - max_split),
          right |-> SubSeq(path_, Len(path_) - max_split + 1, Len(path_))]
    ELSE [raised |-> "ValueError", left |-> <<>>, right |-> <<>>]

\* utils.getLastPath(path_, include_ext): element [0] of sepPath's pair
getLastPath(path_, include_ext) ==
    LET s == sepPath(path_, "rl", 1)
    IN  [raised |-> s.raised,
         path   |-> IF include_ext THEN s.left ELSE SplitExt(s.left)[1]]

\* Every order of a finite set
RECURSIVE Perms(_)
Perms(S) ==
    IF S = {} THEN {<<>>}
    ELSE UNION {{<<x>> \o p : p \in Perms(S \ {x})} : x \in S}

Range(s) == {s[i] : i \in 1..Len(s)}

\* files with path p holding data d (open(p, 'w'), image.save(p))
Written(f, p, d) == [q \in DOMAIN f \cup {p} |-> IF q = p THEN d ELSE f[q]]

-----------------------------------------------------------------------------
(* The batch run: main() and convertDataset() of main.py *)

MaxPages == 2       \* the longest source document, in pages
MaxRuns == 2        \* how often the script is run on the same directories

pdf2img          == Name("pdf2img")
layoutml_outputs == Name("layoutml_outputs")

\* File contents.  A source document holds its number of pages; a page image
\* holds the document and the page index it was rendered from; an output of
\* the extraction holds the document and page of the image it was made from.
Pdf(d, n)        == [kind |-> "pdf", doc |-> d, page |-> n]
PageImage(d, n)  == [kind |-> "image", doc |-> d, page |-> n]
Output(k, src)   == [kind |-> k, doc |-> src.doc, page |-> src.page]
Other            == [kind |-> "other", doc |-> <<>>, page |-> 0]
Earlier          == Name("earlier")     \* the document an older page image came from

\* PIL.Image.open succeeds on these
IsImage(data) == data.kind \in {"image", "boxes", "text"}

\* f"page-{pg_num}"
PageName(pg_num) == Name("page-" \o ToString(pg_num))

\* main.convertPDF(document_dir, pdf2img_path, ext): every way it can end.
\* pdfium may refuse the document (after makePath made the directory) and
\* image.save may fail at any page; otherwise every page is saved.
convertPDF(doc, pdf2img_path, ext) ==
    LET m == makePath(pdf2img_path, <<>>, "ignore")
        page_indices == 0..(files[doc].page - 1)
        saved(k) == [q \in DOMAIN files \cup
                           {joinPath(pdf2img_path, <<PageName(i)>>, ext) : i \in 0..(k - 1)}
                     |-> IF \E i \in 0..(k - 1) :
                                q = joinPath(pdf2img_path, <<PageName(i)>>, ext)
                         THEN PageImage(doc, CHOOSE i \in 0..(k - 1) :
                                q = joinPath(pdf2img_path, <<PageName(i)>>, ext))
                         ELSE files[q]]
    IN  {[raised |-> "PdfiumError", dirs |-> m.dirs, files |-> files]}
        \cup {[raised |-> "OSError", dirs |-> m.dirs, files |-> saved(k)] :
                k \in page_indices}
        \cup {[raised |-> "None", dirs |-> m.dirs,
               files |-> saved(Cardinality(page_indices))]}

\* the outputs written only where none exist yet: the first page's are kept
PageOutputsKeepFirst(f, out_dir, src) ==
    LET boxes_path == joinPath(out_dir, <<File("bboxes_on_raw", png)>>, NoExt)
        text_path  == joinPath(out_dir, <<File("extracted_text", png)>>, NoExt)
        json_path  == joinPath(out_dir, <<File("extracted_text", json)>>, NoExt)
    IN  [q \in DOMAIN f \cup {boxes_path, text_path, json_path} |->
            IF q \in DOMAIN f THEN f[q]
            ELSE IF q = boxes_path THEN Output("boxes", src)
            ELSE IF q = text_path THEN Output("text", src)
            ELSE Output("json", src)]

\* main lines 186-191: image.save, text_img.save and exportJson into outputs_dir
PageOutputs(f, out_dir, src) ==
    Written(Written(Written(f,
        joinPath(out_dir, <<File("bboxes_on_raw", png)>>, NoExt), Output("boxes", src)),
        joinPath(out_dir, <<File("extracted_text", png)>>, NoExt), Output("text", src)),
        joinPath(out_dir, <<File("extracted_text", json)>>, NoExt), Output("json", src))

\* main lines 164-166 with convertDataset line 46: the run starts
Start ==
    /\ UNCHANGED notBatch
    /\ pc = "start"
    /\ LET m == makePath(results_dir, <<>>, "ignore")
           l == listPath(dataset_dir, <<>>, {pdf, PDF}, TRUE, "raise")
       IN  /\ dirs' = m.dirs
           /\ IF l.raised # "None"
              THEN pc' = "crashed" /\ docQueue' = <<>>
              ELSE pc' = "convert" /\ docQueue' \in Perms(l.files)
    /\ UNCHANGED <<files, dataset_dir, results_dir, overwrite, document_dir,
                   outputs_dir, pageQueue, calls, targets, processed, reached>>

\* convertDataset lines 46-52: one turn of the loop
ConvertDocument ==
    /\ UNCHANGED notBatch
    /\ pc = "convert" /\ docQueue # <<>>
    /\ document_dir' = Head(docQueue)
    /\ docQueue' = Tail(docQueue)
    /\ reached' = [reached EXCEPT !.convert = @ \cup {Head(docQueue)}]
    /\ LET doc           == Head(docQueue)
           document_name == getLastPath(doc, TRUE)
           c == checkPath(results_dir,
                          <<pdf2img, SplitExt(document_name.path)[1]>>, NoExt, "ignore")
       IN  IF document_name.raised # "None"
           THEN pc' = "crashed" /\ UNCHANGED <<dirs, files, calls, targets>>
           ELSE /\ targets' = [d \in DOMAIN targets \cup {doc} |->
                                 IF d = doc THEN c.path ELSE targets[d]]
                /\ IF ~c.exist \/ overwrite
                   THEN /\ calls' = [calls EXCEPT ![doc] = @ + 1]
                        /\ \E r \in convertPDF(doc, c.path, png) :
                             /\ dirs' = r.dirs
                             /\ files' = r.files
                             /\ pc' = IF r.raised = "None" THEN "convert" ELSE "crashed"
                   ELSE UNCHANGED <<pc, dirs, files, calls>>
    /\ UNCHANGED <<dataset_dir, results_dir, overwrite, outputs_dir, pageQueue,
                   processed>>

\* convertDataset line 53 and main line 170: the second listing of the dataset
StartExtraction ==
    /\ UNCHANGED notBatch
    /\ pc = "convert" /\ docQueue = <<>>
    /\ LET l == listPath(dataset_dir, <<>>, {pdf, PDF}, TRUE, "raise")
       IN  IF l.raised # "None"
           THEN pc' = "crashed" /\ docQueue' = <<>>
           ELSE pc' = "extract" /\ docQueue' \in Perms(l.files)
    /\ UNCHANGED <<fsVars, dataset_dir, results_dir, overwrite, document_dir,
                   outputs_dir, pageQueue, calls, targets, processed, reached>>

\* main lines 170-174: the loop body up to the listing of the page images
NextDocument ==
    /\ UNCHANGED notBatch
    /\ pc = "extract" /\ docQueue # <<>>
    /\ document_dir' = Head(docQueue)
    /\ docQueue' = Tail(docQueue)
    /\ reached' = [reached EXCEPT !.extract = @ \cup {Head(docQueue)}]
    /\ LET document_name == getLastPath(Head(docQueue), FALSE)
           m == makePath(results_dir, <<layoutml_outputs, document_name.path>>, "ignore")
           l == listPath(results_dir, <<pdf2img, document_name.path>>, DefaultExt,
                         TRUE, "raise")
       IN  IF document_name.raised # "None"
           THEN pc' = "crashed" /\ UNCHANGED <<dirs, outputs_dir, pageQueue>>
           ELSE /\ dirs' = m.dirs
                /\ outputs_dir' = m.path
                /\ IF l.raised # "None"
                   THEN pc' = "crashed" /\ pageQueue' = <<>>
                   ELSE pc' = "pages" /\ pageQueue' \in Perms(l.files)
    /\ UNCHANGED <<files, dataset_dir, results_dir, overwrite, calls, targets,
                   processed>>

\* main lines 174-191: one turn of the inner loop.  Image.open raises on what
\* is no image, and the feature extractor may raise.
ProcessPage ==
    /\ UNCHANGED notBatch
    /\ pc = "pages" /\ pageQueue # <<>>
    /\ pageQueue' = Tail(pageQueue)
    /\ LET page_dir == Head(pageQueue)
           c == checkPath(page_dir, <<>>, png, "ignore")
       IN  IF ~c.exist
           THEN UNCHANGED <<pc, files, processed>>
           ELSE IF c.path \notin DOMAIN files \/ ~IsImage(files[c.path])
           THEN pc' = "crashed" /\ UNCHANGED <<files, processed>>
           ELSE \E inference_ok \in BOOLEAN :
                  IF inference_ok
                  THEN /\ files' = PageOutputs(files, outputs_dir, files[c.path])
                       /\ processed' = Append(processed, [img |-> c.path, out |-> outputs_dir])
                       /\ UNCHANGED pc
                  ELSE pc' = "crashed" /\ UNCHANGED <<files, processed>>
    /\ UNCHANGED <<dirs, dataset_dir, results_dir, overwrite, docQueue, document_dir,
                   outputs_dir, calls, targets, reached>>

\* main line 174: the inner loop ends
EndDocument ==
    /\ UNCHANGED notBatch
    /\ pc = "pages" /\ pageQueue = <<>>
    /\ pc' = "extract"
    /\ UNCHANGED <<fsVars, dataset_dir, results_dir, overwrite, docQueue,
                   document_dir, outputs_dir, pageQueue, calls, targets, processed,
                   reached>>

\* main line 170: the outer loop ends and main returns
Finish ==
    /\ UNCHANGED notBatch
    /\ pc = "extract" /\ docQueue = <<>>
    /\ pc' = "done"
    /\ UNCHANGED <<fsVars, dataset_dir, results_dir, overwrite, docQueue,
                   document_dir, outputs_dir, pageQueue, calls, targets, processed,
                   reached>>

-----------------------------------------------------------------------------
(* The values the variables of one part keep while another part runs *)

IdleBatch ==
    /\ pc = "idle" /\ dataset_dir = <<>> /\ results_dir = <<>> /\ overwrite = FALSE
    /\ docQueue = <<>> /\ document_dir = <<>> /\ outputs_dir = <<>> /\ pageQueue = <<>>
    /\ calls = <<>> /\ targets = <<>> /\ processed = <<>>
    /\ reached = [convert |-> {}, extract |-> {}]
    /\ run = 0 /\ clean = TRUE

IdleFs == dirs = {} /\ files = <<>>

IdleRescale ==
    /\ img = [width |-> 0, height |-> 0] /\ bboxes = <<>> /\ normalized = <<>>
    /\ rescaled = <<>>

IdleText ==
    /\ words = <<>> /\ boxes = <<>> /\ tpc = "idle" /\ fontsize = 0
    /\ drawn = <<>> /\ metric = <<>>

NoFile == [exists |-> FALSE, content |-> <<>>]

IdleExport ==
    exWords = <<>> /\ exBoxes = <<>> /\ exFile = NoFile /\ exRaised = "not called"

IdlePath ==
    call = [op |-> "none", errors |-> "ignore", missing |-> FALSE,
            raised |-> "None", warned |-> 0, touched |-> FALSE]

-----------------------------------------------------------------------------
(* The batch run: its inputs and its specification *)

\* main lines 164-166, and two relative pairs for convertDataset's parameters
Configs ==
    {[dataset |-> <<Comp("C:", NoExt), Comp("Users", NoExt), Comp("green", NoExt),
                    Comp("Desktop", NoExt), Comp("Xaana", Dot(<<"a", "i">>)),
                    Comp("invoice datatset", NoExt), Comp("CASA", NoExt)>>,
      results |-> <<Comp("C:", NoExt), Comp("Users", NoExt), Comp("green", NoExt),
                    Comp("Desktop", NoExt), Comp("Xaana", Dot(<<"a", "i">>)),
                    Comp("doc_scan", NoExt), Comp("results", NoExt)>>],
     [dataset |-> Name("data"), results |-> Name("results")],
     [dataset |-> <<Comp("data", Dot(v1))>>, results |-> Name("results")]}

\* The source documents a dataset directory may hold
DocNames == {File("a", pdf), File("b", PDF)}

\* What the directory convertDataset looks at may hold before the run
PriorEntries == {File("page-0", png), Name("page-0"), Name("page-1")}

PriorData(e) == IF e = File("page-0", png) THEN PageImage(Earlier, 0) ELSE Other

\* {resultsDir}/pdf2img/{documentBaseName}: the directory the documentation
\* gives the document doc
OwnTarget(res, doc) == res \o pdf2img \o SplitExt(<<doc[Len(doc)]>>)[1]

\* the directory convertDataset computes for every document of dataset (lines 47-48)
CodeTarget(res, dataset) ==
    joinPath(res, <<pdf2img, SplitExt(dataset)[1]>>, NoExt)

\* convertDataset lines 48-50 skip a document on the existence of its
\* pdf2png_path alone.  Complete tells whether that path, where it exists,
\* holds the image of every page of every document it is computed for.
Complete ==
    \A d \in DOMAIN calls :
        LET t == CodeTarget(results_dir, dataset_dir)
        IN  Exists(t) =>
              \A i \in 0..(files[d].page - 1) :
                 /\ joinPath(t, <<PageName(i)>>, png) \in DOMAIN files
                 /\ files[joinPath(t, <<PageName(i)>>, png)] = PageImage(d, i)

InitBatch ==
    \E cfg \in Configs, present \in SUBSET DocNames, ow \in BOOLEAN,
       prior \in SUBSET PriorEntries, shared \in BOOLEAN :
    \E npages \in [present -> 1..MaxPages], own \in SUBSET present :
        /\ prior # {} => shared
        /\ pc = "start"
        /\ dataset_dir = cfg.dataset
        /\ results_dir = cfg.results
        /\ overwrite = ow
        /\ dirs = Ancestors(cfg.dataset)
                  \cup (IF shared THEN Ancestors(CodeTarget(cfg.results, cfg.dataset))
                        ELSE {})
                  \cup UNION {Ancestors(OwnTarget(cfg.results, cfg.dataset \o d)) :
                                d \in own}
        /\ files = [q \in {cfg.dataset \o d : d \in present \cup {File("notes", txt)}}
                          \cup {CodeTarget(cfg.results, cfg.dataset) \o e : e \in prior}
                    |-> IF \E d \in present : q = cfg.dataset \o d
                        THEN Pdf(q, npages[CHOOSE d \in present : q = cfg.dataset \o d])
                        ELSE IF \E e \in prior :
                                  q = CodeTarget(cfg.results, cfg.dataset) \o e
                        THEN PriorData(CHOOSE e \in prior :
                                  q = CodeTarget(cfg.results, cfg.dataset) \o e)
                        ELSE Other]
        /\ docQueue = <<>> /\ document_dir = <<>> /\ outputs_dir = <<>>
        /\ pageQueue = <<>>
        /\ calls = [d \in {cfg.dataset \o x : x \in present} |-> 0]
        /\ targets = <<>>
        /\ processed = <<>>
        /\ reached = [convert |-> {}, extract |-> {}]
        /\ run = 1
        /\ clean = Complete

\* main line 195: the script is run again on what the last run left on disk,
\* whether that run returned or ended on an exception
Rerun ==
    /\ UNCHANGED <<rescaleVars, textVars, exportVars, pathVars>>
    /\ pc \in {"done", "crashed"}
    /\ run < MaxRuns
    /\ run' = run + 1
    /\ pc' = "start"
    /\ docQueue' = <<>> /\ document_dir' = <<>> /\ outputs_dir' = <<>>
    /\ pageQueue' = <<>>
    /\ calls' = [d \in DOMAIN calls |-> 0]
    /\ targets' = <<>>
    /\ processed' = <<>>
    /\ reached' = [convert |-> {}, extract |-> {}]
    /\ UNCHANGED <<fsVars, dataset_dir, results_dir, overwrite, clean>>

Init == InitBatch /\ IdleRescale /\ IdleText /\ IdleExport /\ IdlePath

Next ==
    \/ Start
    \/ ConvertDocument
    \/ StartExtraction
    \/ NextDocument
    \/ ProcessPage
    \/ EndDocument
    \/ Finish
    \/ Rerun

Spec == Init /\ [][Next]_vars

-----------------------------------------------------------------------------
(* Claims about the batch run *)

\* the entries directly inside directory p
Inside(p) == {q \in dirs \cup DOMAIN files :
                Len(q) = Len(p) + 1 /\ SubSeq(q, 1, Len(p)) = p}

\* C2: in convertDataset, a document whose target directory
\* {save_dir}/pdf2img/{documentBaseName} exists is not handed to convertPDF
\* while overwrite is false; in every other case convertPDF is invoked exactly
\* once for it and, unless it raises, leaves every page of the document in
\* that directory.
C2_SkipOrConvertOnce ==
    [][(pc = "convert" /\ docQueue # <<>>) =>
         LET doc == Head(docQueue)
             own == OwnTarget(results_dir, doc)
         IN  IF Exists(own) /\ ~overwrite
             THEN calls'[doc] = calls[doc]
             ELSE /\ calls'[doc] = calls[doc] + 1
                  /\ pc' # "crashed" =>
                       \A i \in 0..(files[doc].page - 1) :
                         /\ joinPath(own, <<PageName(i)>>, png) \in DOMAIN files'
                         /\ files'[joinPath(own, <<PageName(i)>>, png)]
                              = PageImage(doc, i)]_vars

\* C3: a failure while one document is handled ends the handling of that
\* document only: when the run has ended on a failure, every document that came
\* after the failing one in the listing has been through the loop of
\* convertDataset and through the extraction loop of main.
C3_FailureAbortsOneDocument ==
    pc = "crashed" =>
        \A d \in Range(docQueue) : d \in reached.convert /\ d \in reached.extract

\* C8: getLastPath returns the last component of the path (without its
\* extension when include_ext is false), so every document is given the
\* directory {resultsDir}/pdf2img/{documentBaseName} and two documents with
\* different file names are given different directories.
C8_LastComponentDistinctTargets ==
    \A d \in DOMAIN targets :
        /\ getLastPath(d, TRUE).path = <<d[Len(d)]>>
        /\ getLastPath(d, FALSE).path = SplitExt(<<d[Len(d)]>>)[1]
        /\ targets[d] = OwnTarget(results_dir, d)
        /\ \A e \in DOMAIN targets : e # d => targets[e] # targets[d]

\* C9: listPath without ext returns every entry of the directory, so when main
\* returns, every page image in a document's pdf2img directory has been
\* extracted, rescaled, rendered and exported.
C9_EveryPageImageProcessed ==
    \A d \in DOMAIN targets :
        /\ targets[d] \in dirs =>
             listPath(targets[d], <<>>, DefaultExt, TRUE, "raise").files
               = Inside(targets[d])
        /\ pc = "done" =>
             \A q \in Inside(targets[d]) \cap DOMAIN files :
                files[q].kind = "image" =>
                    \E i \in 1..Len(processed) : processed[i].img = q

\* the three outputs main writes for a page, as PageOutputs names them
OutputPaths(out_dir) ==
    [boxes |-> joinPath(out_dir, <<File("bboxes_on_raw", png)>>, NoExt),
     text  |-> joinPath(out_dir, <<File("extracted_text", png)>>, NoExt),
     json  |-> joinPath(out_dir, <<File("extracted_text", json)>>, NoExt)]

OutputsAreOf(out_dir, src) ==
    \A k \in {"boxes", "text", "json"} :
        /\ OutputPaths(out_dir)[k] \in DOMAIN files
        /\ files[OutputPaths(out_dir)[k]] = Output(k, src)

-----------------------------------------------------------------------------
(* rescaleBBoxes.  Coordinates are exact fractions [num, den] in lowest      *)
(* terms (den > 0), so that the division by 1000 is computed; Python         *)
(* computes the same products in floating point.                             *)

MaxBoxes == 2       \* the longest list of boxes
MaxCalls == 2       \* how often the caller hands the same list to rescaleBBoxes

RECURSIVE Gcd(_, _)
Gcd(a, b) == IF b = 0 THEN a ELSE Gcd(b, a % b)

Abs(x) == IF x < 0 THEN -x ELSE x

Frac(n, d) ==
    LET g == Gcd(Abs(n), d)
    IN  IF n = 0 THEN [num |-> 0, den |-> 1] ELSE [num |-> n \div g, den |-> d \div g]

Whole(n) == Frac(n, 1)

Times(a, b) == Frac(a.num * b.num, a.den * b.den)

\* main.rescaleBBoxes(img, bboxes): the content of the list bboxes when the
\* call returns, which is also the list it returns (lines 82-85 assign into
\* the caller's boxes and line 85 returns the caller's list).
rescaleBBoxes(image, bxs) ==
    LET w_scale == Frac(image.width, 1000)
        h_scale == Frac(image.height, 1000)
    IN  [i \in DOMAIN bxs |->
            <<Times(bxs[i][1], w_scale), Times(bxs[i][2], h_scale),
              Times(bxs[i][3], w_scale), Times(bxs[i][4], h_scale)>>]

PageSizes == {0, 500, 1000, 2000}

NormalizedBoxes ==
    {<<Whole(0), Whole(0), Whole(200), Whole(50)>>,
     <<Whole(210), Whole(0), Whole(400), Whole(50)>>,
     <<Whole(0), Whole(0), Whole(0), Whole(0)>>}

SeqsUpTo(S, n) == UNION {[1..k -> S] : k \in 0..n}

InitRescale ==
    /\ img \in [width : PageSizes, height : PageSizes]
    /\ bboxes \in SeqsUpTo(NormalizedBoxes, MaxBoxes)
    /\ normalized = bboxes
    /\ rescaled = <<>>
    /\ IdleFs /\ IdleBatch /\ IdleText /\ IdleExport /\ IdlePath

\* bboxes = rescaleBBoxes(image, encoding["boxes"][page]), main lines 151 and 184
CallRescale ==
    /\ UNCHANGED notRescale
    /\ Len(rescaled) < MaxCalls
    /\ bboxes' = rescaleBBoxes(img, bboxes)
    /\ rescaled' = Append(rescaled, bboxes')
    /\ UNCHANGED <<img, normalized>>

NextRescale == CallRescale

SpecRescale == InitRescale /\ [][NextRescale]_vars

\* C1: rescaleBBoxes leaves the caller's normalized boxes as they were, so a
\* second call on the same list returns the pixel boxes of the first call.
C1_CallerBoxesKept ==
    /\ rescaled # <<>> => bboxes = normalized
    /\ Len(rescaled) >= 2 => rescaled[2] = rescaled[1]

-----------------------------------------------------------------------------
(* exportJson.  The file holds the list json.dump writes: one object with   *)
(* the fields key, text and bbox for each element of result.                 *)

MaxRecords == 2     \* the longest list of words and the longest list of boxes

\* exportJson with enumerate started at 1: the keys are off by one
exportJsonKeysFromOne(wds, bxs) ==
    IF \E i \in 1..Len(bxs) : i > Len(wds)
    THEN [raised |-> "IndexError", file |-> NoFile]
    ELSE [raised |-> "None",
          file   |-> [exists  |-> TRUE,
                      content |-> [i \in 1..Len(bxs) |->
                                     [key |-> i, text |-> wds[i], bbox |-> bxs[i]]]]]

\* main.exportJson(words, bboxes, output_file): what it raises and what the
\* file holds afterwards.  words[i] raises IndexError at the first box without
\* a word, before the file is opened.
exportJson(wds, bxs) ==
    IF \E i \in 1..Len(bxs) : i > Len(wds)
    THEN [raised |-> "IndexError", file |-> NoFile]
    ELSE [raised |-> "None",
          file   |-> [exists  |-> TRUE,
                      content |-> [i \in 1..Len(bxs) |->
                                     [key |-> i - 1, text |-> wds[i], bbox |-> bxs[i]]]]]

ExportWords == {"Invoice", "#123", "Total"}
ExportBoxes == {<<0, 0, 200, 50>>, <<210, 0, 400, 50>>}

InitExport ==
    /\ exWords \in SeqsUpTo(ExportWords, MaxRecords)
    /\ exBoxes \in SeqsUpTo(ExportBoxes, MaxRecords)
    /\ exFile = NoFile
    /\ exRaised = "not called"
    /\ IdleFs /\ IdleBatch /\ IdleRescale /\ IdleText /\ IdlePath

\* exportJson(words, bboxes, output_file), main lines 158 and 191
CallExport ==
    /\ UNCHANGED notExport
    /\ exRaised = "not called"
    /\ exRaised' = exportJson(exWords, exBoxes).raised
    /\ exFile' = exportJson(exWords, exBoxes).file
    /\ UNCHANGED <<exWords, exBoxes>>

NextExport == CallExport

SpecExport == InitExport /\ [][NextExport]_vars

\* C6, as stated: whatever the lengths of the two lists, the export succeeds
\* and the file has, for every box and for every word, the object of its
\* position: key = i, text = words[i], bbox = bboxes[i].
C6_EveryLengthPair ==
    exRaised # "not called" =>
        /\ exRaised = "None" /\ exFile.exists
        /\ \A i \in 1..Len(exBoxes) :
             /\ i <= Len(exFile.content)
             /\ exFile.content[i].key = i - 1
             /\ exFile.content[i].bbox = exBoxes[i]
        /\ \A i \in 1..Len(exWords) :
             i <= Len(exFile.content) /\ exFile.content[i].text = exWords[i]

\* C6, amended: when there are at least as many words as boxes the file has
\* one object per box, in order, object i with key = i, text = words[i] and
\* bbox = bboxes[i] (words beyond the last box are left out); with fewer words
\* than boxes exportJson raises IndexError and writes nothing.
C6_OrderKeptPerBox ==
    exRaised # "not called" =>
        IF Len(exWords) >= Len(exBoxes)
        THEN /\ exRaised = "None"
             /\ exFile.exists
             /\ Len(exFile.content) = Len(exBoxes)
             /\ \A i \in 1..Len(exBoxes) :
                  /\ DOMAIN exFile.content[i] = {"key", "text", "bbox"}
                  /\ exFile.content[i].key = i - 1
                  /\ exFile.content[i].text = exWords[i]
                  /\ exFile.content[i].bbox = exBoxes[i]
        ELSE exRaised = "IndexError" /\ ~exFile.exists

\* C6: an export of two records with different words and boxes has been written
C6_Witness ==
    /\ exRaised = "None" /\ exFile.exists /\ Len(exFile.content) = 2
    /\ exWords[1] # exWords[2] /\ exBoxes[1] # exBoxes[2]

-----------------------------------------------------------------------------
(* displayText: the font-sizing loop, one step per evaluation of the while   *)
(* condition.  The font is outside the repository; it is modelled by the      *)
(* advance of each word per unit of font size, so the measured length         *)
(* grows with the font size.                                                  *)

MaxWords == 2     \* the longest list of words and the longest list of boxes
MaxAdvance == 2     \* the widest word, in pixels per unit of font size

TextWords == {"I", "Invoice"}

\* pixel boxes [x1, y1, x2, y2] of width 4, 3, 1, 0 and -2
TextBoxes ==
    {<<0, 0, 4, 5>>, <<2, 0, 5, 5>>, <<3, 0, 4, 5>>, <<3, 0, 3, 5>>, <<5, 0, 3, 5>>}

\* font.getlength(word), font being ImageFont.truetype("Roboto-Regular.ttf", size)
GetLength(word, size) == metric[word] * size

InitText ==
    /\ words \in SeqsUpTo(TextWords, MaxWords)
    /\ boxes \in SeqsUpTo(TextBoxes, MaxWords)
    /\ metric \in [TextWords -> 1..MaxAdvance]
    /\ tpc = "for"
    /\ fontsize = 0
    /\ drawn = <<>>
    /\ IdleFs /\ IdleBatch /\ IdleRescale /\ IdleExport /\ IdlePath

\* lines 116-119: zip yields the next box and word, fontsize = 1
NextWord ==
    /\ UNCHANGED notText
    /\ tpc = "for" /\ words # <<>> /\ boxes # <<>>
    /\ fontsize' = 1
    /\ tpc' = "while"
    /\ UNCHANGED <<words, boxes, drawn, metric>>

\* lines 120-122: the condition holds, the body runs
Grow ==
    /\ UNCHANGED notText
    /\ tpc = "while"
    /\ GetLength(Head(words), fontsize) < Head(boxes)[3] - Head(boxes)[1]
    /\ fontsize' = fontsize + 1
    /\ UNCHANGED <<words, boxes, tpc, drawn, metric>>

\* the size handed to ImageFont.truetype at line 123
DrawSize(size) == size - 1

\* lines 120, 123-126: the condition fails, the word is drawn.  A font of
\* size 0 is refused by ImageFont.truetype in current Pillow and accepted by
\* none as size 1: both outcomes are kept.
Draw ==
    /\ UNCHANGED notText
    /\ tpc = "while"
    /\ ~(GetLength(Head(words), fontsize) < Head(boxes)[3] - Head(boxes)[1])
    /\ \/ /\ drawn' = Append(drawn, [word |-> Head(words), box |-> Head(boxes),
                                     size |-> DrawSize(fontsize),
                                     steps |-> fontsize - 1])
          /\ words' = Tail(words)
          /\ boxes' = Tail(boxes)
          /\ tpc' = "for"
       \/ /\ DrawSize(fontsize) < 1
          /\ tpc' = "raised"
          /\ UNCHANGED <<words, boxes, drawn>>
    /\ UNCHANGED <<fontsize, metric>>

\* line 127: zip is exhausted, displayText returns
Return ==
    /\ UNCHANGED notText
    /\ tpc = "for" /\ (words = <<>> \/ boxes = <<>>)
    /\ tpc' = "return"
    /\ UNCHANGED <<words, boxes, fontsize, drawn, metric>>

NextText == NextWord \/ Grow \/ Draw \/ Return

SpecText == InitText /\ [][NextText]_vars

Width(box) == box[3] - box[1]

\* C4: a word in a box of positive width that some font size fits is drawn
\* with the largest font size whose measured length does not exceed the
\* width of the box; a size whose length equals the width is the one used.
C4_LargestFittingSize ==
    \A i \in 1..Len(drawn) :
        LET e    == drawn[i]
            fits == {s \in 1..Width(e.box) : GetLength(e.word, s) <= Width(e.box)}
        IN  (Width(e.box) > 0 /\ fits # {}) =>
                /\ e.size \in fits
                /\ \A s \in fits : s <= e.size

\* C5: for a box of width zero or less the sizing loop ends at once and the
\* word is drawn at the starting size 1, not at a smaller or invalid size.
C5_DegenerateBoxMinimumSize ==
    /\ \A i \in 1..Len(drawn) :
         Width(drawn[i].box) <= 0 => drawn[i].steps = 0 /\ drawn[i].size = 1
    /\ tpc = "raised" => Width(Head(boxes)) > 0

-----------------------------------------------------------------------------
(* The path operations of utils.py with their errors parameter *)

\* utils.load(dir_, name, ext=ext, errors=errors).  resolved tells whether
\* the call came to resolve a path (line 183).
load(dir_, name, ext, errors) ==
    IF errors \notin Modes
    THEN [raised |-> "ValueError", warned |-> 0, touched |-> FALSE,
          resolved |-> FALSE]
    ELSE LET e == IF ext # NoExt THEN ext ELSE SplitExt(name)[2]
         IN  IF e = NoExt
             THEN [raised   |-> IF errors = "raise" THEN "ValueError" ELSE "None",
                   warned   |-> IF errors = "warn" THEN 1 ELSE 0,
                   touched  |-> FALSE,
                   resolved |-> FALSE]
             ELSE LET c == checkPath(dir_, <<name>>, e, errors)
                  IN  IF c.raised # "None"
                      THEN [raised |-> c.raised, warned |-> c.warned,
                            touched |-> TRUE, resolved |-> TRUE]
                      ELSE \* open(path_, 'r')
                           [raised   |-> IF c.path \in DOMAIN files THEN "None"
                                         ELSE IF c.exist THEN "PermissionError"
                                         ELSE "FileNotFoundError",
                            warned   |-> c.warned,
                            touched  |-> TRUE,
                            resolved |-> TRUE]

\* utils.save(dir_, name, data, errors=errors): what it raises, how often it
\* warns, what it returns and the files that exist afterwards.
save(dir_, name, data, errors) ==
    IF errors \notin Modes
    THEN [raised |-> "ValueError", warned |-> 0, touched |-> FALSE,
          completed |-> FALSE, files |-> files]
    ELSE LET path_ == joinPath(dir_, <<name>>, NoExt)
             ext   == SplitExt(name)[2]
             c     == checkPath(dir_, <<>>, NoExt, errors)
         IN  IF c.raised # "None"
             THEN [raised |-> c.raised, warned |-> c.warned, touched |-> TRUE,
                   completed |-> FALSE, files |-> files]
             ELSE IF ~Exists(dir_)
             THEN [raised    |-> IF errors = "raise" THEN "FileNotFoundError"
                                 ELSE "None",
                   warned    |-> c.warned + (IF errors = "warn" THEN 1 ELSE 0),
                   touched   |-> TRUE,
                   completed |-> FALSE,
                   files     |-> files]
             ELSE IF ext = NoExt
             THEN [raised |-> "None", warned |-> IF errors = "raise" THEN 1 ELSE 0,
                   touched |-> TRUE, completed |-> FALSE, files |-> files]
             ELSE IF dir_ \notin dirs
             THEN [raised |-> "NotADirectoryError", warned |-> 0, touched |-> TRUE,
                   completed |-> FALSE, files |-> files]
             ELSE [raised |-> "None", warned |-> 0, touched |-> TRUE,
                   completed |-> TRUE, files |-> Written(files, path_, data)]

\* the values the callers of the model pass as errors: the three modes and one
\* that is none of them
ErrorsValues == Modes \cup {"strict"}

\* the directories and the file names the calls are made on
PathDirs  == {Name("store"), Name("store") \o Name("cache")}
PathNames == {File("x", json), File("notes", txt), Name("x")}

InitPath ==
    /\ dirs \in {{}, {Name("store")}, {Name("store"), Name("store") \o Name("cache")}}
    /\ \E present \in SUBSET {File("x", json), Name("x")} :
         /\ present # {} => Name("store") \in dirs
         /\ files = [q \in {Name("store") \o n : n \in present} |-> Other]
    /\ IdlePath
    /\ IdleBatch /\ IdleRescale /\ IdleText /\ IdleExport

CallCheckPath ==
    /\ UNCHANGED notPath
    /\ \E d \in PathDirs, errors \in ErrorsValues :
         LET c == checkPath(d, <<>>, NoExt, errors)
         IN  call' = [op |-> "checkPath", errors |-> errors, missing |-> ~Exists(d),
                      raised |-> c.raised, warned |-> c.warned, touched |-> c.touched]
    /\ UNCHANGED fsVars

CallMakePath ==
    /\ UNCHANGED notPath
    /\ \E d \in PathDirs, errors \in ErrorsValues :
         LET m == makePath(d, <<>>, errors)
         IN  /\ call' = [op |-> "makePath", errors |-> errors, missing |-> ~Exists(d),
                         raised |-> m.raised, warned |-> m.warned,
                         touched |-> m.touched]
             /\ dirs' = m.dirs
    /\ UNCHANGED files

CallListPath ==
    /\ UNCHANGED notPath
    /\ \E d \in PathDirs, errors \in ErrorsValues :
         LET l == listPath(d, <<>>, DefaultExt, FALSE, errors)
         IN  call' = [op |-> "listPath", errors |-> errors, missing |-> ~Exists(d),
                      raised |-> l.raised, warned |-> l.warned, touched |-> l.touched]
    /\ UNCHANGED fsVars

CallLoad ==
    /\ UNCHANGED notPath
    /\ \E d \in PathDirs, n \in PathNames, errors \in ErrorsValues :
         LET l == load(d, n, NoExt, errors)
         IN  call' = [op |-> "load", errors |-> errors,
                      missing |-> SplitExt(n)[2] # NoExt /\ ~Exists(d \o n),
                      raised |-> l.raised, warned |-> l.warned, touched |-> l.touched]
    /\ UNCHANGED fsVars

CallSave ==
    /\ UNCHANGED notPath
    /\ \E d \in PathDirs, n \in PathNames, errors \in ErrorsValues :
         LET r == save(d, n, Other, errors)
         IN  /\ call' = [op |-> "save", errors |-> errors, missing |-> ~Exists(d),
                         raised |-> r.raised, warned |-> r.warned,
                         touched |-> r.touched]
             /\ files' = r.files
    /\ UNCHANGED dirs

NextPath == CallCheckPath \/ CallMakePath \/ CallListPath \/ CallLoad \/ CallSave

SpecPath == InitPath /\ [][NextPath]_vars

\* C7: every path operation with an errors mode, called on a path that does
\* not exist, raises nothing under 'ignore', warns and raises nothing under
\* 'warn' and raises FileNotFoundError under 'raise'; any other mode raises
\* ValueError before the filesystem is asked.
C7_SignalPerMode ==
    call.op # "none" =>
        /\ call.errors \notin Modes => call.raised = "ValueError" /\ ~call.touched
        /\ (call.missing /\ call.errors = "ignore") =>
               call.raised = "None" /\ call.warned = 0
        /\ (call.missing /\ call.errors = "warn") =>
               call.raised = "None" /\ call.warned > 0
        /\ (call.missing /\ call.errors = "raise") =>
               call.raised = "FileNotFoundError"

-----------------------------------------------------------------------------
(* Claims about repeated runs *)

\* C11: across runs with overwrite = false, failed ones included, a document
\* is skipped only when it is completely rasterized: starting from
\* directories where this was so, whenever a run starts and the target
\* directory of a document exists, the directory holds the image of every
\* page of the document.
C11_SkippedOnlyWhenComplete ==
    (pc = "start" /\ ~overwrite /\ clean) => Complete

====
